---- MODULE Spec2Model ----
(***************************************************************************)
(* Model of phishing_detector.py: the PhishingDetector class.              *)
(*                                                                         *)
(*   SpecInit  models the constructor __init__ (lines 8-29) run against an *)
(*             environment: the config file and whether the spaCy model    *)
(*             can be loaded.                                              *)
(*   Spec      models the methods analyze_email (lines 32-57) and          *)
(*             print_results (lines 59-72) called in any order on a        *)
(*             detector object whose attributes suspicious_patterns and    *)
(*             scoring_rules hold a config.  The constructor as written    *)
(*             never returns such an object (see SpecInit), so Spec starts *)
(*             from the attribute values the methods read, the way a       *)
(*             caller exercising the methods directly would set them.      *)
(*                                                                         *)
(* Strings that the code inspects character by character (the email text,  *)
(* the regex patterns, the matched substrings) are sequences of Unicode     *)
(* code points.  A string the code builds (a flag, a printed line) is a     *)
(* PyText: the fixed text and label it starts with, then the characters     *)
(* taken from the email that follow.                                       *)
(***************************************************************************)
EXTENDS Integers, Sequences, FiniteSets, TLC

VARIABLES
    env,                  \* what __init__ runs against: config file, spaCy model
    ctor,                 \* where the constructor call stands and what it raised
    suspicious_patterns,  \* self.suspicious_patterns: ordered label -> pattern
    scoring_rules,        \* self.scoring_rules: label -> weight
    call,                 \* argument and NER answer of the last analyze_email call
    outcome,              \* how that call ended: "none", "returned", "ValueError"
    ret,                  \* what that call returned
    held,                 \* main's `score, flags` (line 91) and the call they came from
    printed               \* lines written by the last operation

vars == <<env, ctor, suspicious_patterns, scoring_rules,
          call, outcome, ret, held, printed>>

config_vars == <<suspicious_patterns, scoring_rules>>

-----------------------------------------------------------------------------
(* Input domains *)

MaxLen == 2

\* "A" and the space
TextAlphabet == {65, 32}

Strings(n) == UNION {[1..k -> TextAlphabet] : k \in 0..n}

PyStr(s) == [type |-> "str", chars |-> s]

PyNone == [type |-> "NoneType"]

NonStrings == {PyNone, [type |-> "int", value |-> 7]}

Inputs == {PyStr(s) : s \in Strings(MaxLen)} \cup NonStrings

\* What self.nlp(text).ents would hold: the labels of the entities found.
NerAnswers == {<<"PERSON">>, <<"PERSON", "ORG">>}

Labels == {"url", "urgent"}

\* The regex subset modelled: a pattern is a sequence of literal characters,
\* "." (46) and "(" (40, a group that is never closed).
\* "a", ".a" and "("
Patterns == {<<97>>, <<46, 97>>, <<40>>}

RuleKeys == Labels \cup {"missing_organization"}

\* A full scoring_rules table; configs carry any part of it.
FullRules ==
    [k \in RuleKeys |->
        CASE k = "url" -> 4
          [] k = "urgent" -> -1
          [] k = "missing_organization" -> 3]

DistinctLabels(sp) ==
    \A i, j \in 1..Len(sp) : sp[i].label = sp[j].label => i = j

PatternMaps ==
    UNION {{sp \in [1..k -> [label : Labels, pattern : Patterns]] :
                DistinctLabels(sp)} : k \in 0..Cardinality(Labels)}

RuleMaps == {[k \in K |-> FullRules[k]] : K \in SUBSET RuleKeys}

-----------------------------------------------------------------------------
(* Python built-ins used by the code *)

\* str.isspace, which str.strip() (line 34) goes by: the code points that
\* are whitespace
SpaceChars ==
    (9..13) \cup (28..31) \cup {32, 133, 160, 5760} \cup (8192..8202)
        \cup {8232, 8233, 8239, 8287, 12288}

IsSpace(c) == c \in SpaceChars

RECURSIVE lstrip(_)
lstrip(s) ==
    IF s # <<>> /\ IsSpace(Head(s)) THEN lstrip(Tail(s)) ELSE s

RECURSIVE rstrip(_)
rstrip(s) ==
    IF s # <<>> /\ IsSpace(s[Len(s)])
    THEN rstrip(SubSeq(s, 1, Len(s) - 1))
    ELSE s

strip(s) == rstrip(lstrip(s))

\* The case folding of re.IGNORECASE (line 43) on str patterns: two
\* characters match each other iff they fold to the same code point.  Each
\* entry <<first, last, step, delta>> folds first, first + step, ..., last to
\* themselves plus delta; every other code point folds to itself.
CaseRanges ==
    <<<<65, 90, 1, 32>>, <<181, 181, 1, 775>>, <<192, 214, 1, 32>>,
      <<216, 222, 1, 32>>, <<256, 302, 2, 1>>, <<304, 304, 1, -199>>,
      <<305, 305, 1, -200>>, <<306, 310, 2, 1>>, <<313, 327, 2, 1>>,
      <<330, 374, 2, 1>>, <<376, 376, 1, -121>>, <<377, 381, 2, 1>>,
      <<383, 383, 1, -268>>, <<385, 385, 1, 210>>, <<386, 388, 2, 1>>,
      <<390, 390, 1, 206>>, <<391, 391, 1, 1>>, <<393, 394, 1, 205>>,
      <<395, 395, 1, 1>>, <<398, 398, 1, 79>>, <<399, 399, 1, 202>>,
      <<400, 400, 1, 203>>, <<401, 401, 1, 1>>, <<403, 403, 1, 205>>,
      <<404, 404, 1, 207>>, <<406, 406, 1, 211>>, <<407, 407, 1, 209>>,
      <<408, 408, 1, 1>>, <<412, 412, 1, 211>>, <<413, 413, 1, 213>>,
      <<415, 415, 1, 214>>, <<416, 420, 2, 1>>, <<422, 422, 1, 218>>,
      <<423, 423, 1, 1>>, <<425, 425, 1, 218>>, <<428, 428, 1, 1>>,
      <<430, 430, 1, 218>>, <<431, 431, 1, 1>>, <<433, 434, 1, 217>>,
      <<435, 437, 2, 1>>, <<439, 439, 1, 219>>, <<440, 440, 1, 1>>,
      <<444, 444, 1, 1>>, <<452, 452, 1, 2>>, <<453, 453, 1, 1>>,
      <<455, 455, 1, 2>>, <<456, 456, 1, 1>>, <<458, 458, 1, 2>>,
      <<459, 475, 2, 1>>, <<478, 494, 2, 1>>, <<497, 497, 1, 2>>,
      <<498, 500, 2, 1>>, <<502, 502, 1, -97>>, <<503, 503, 1, -56>>,
      <<504, 542, 2, 1>>, <<544, 544, 1, -130>>, <<546, 562, 2, 1>>,
      <<570, 570, 1, 10795>>, <<571, 571, 1, 1>>, <<573, 573, 1, -163>>,
      <<574, 574, 1, 10792>>, <<577, 577, 1, 1>>, <<579, 579, 1, -195>>,
      <<580, 580, 1, 69>>, <<581, 581, 1, 71>>, <<582, 590, 2, 1>>,
      <<837, 837, 1, 116>>, <<880, 882, 2, 1>>, <<886, 886, 1, 1>>,
      <<895, 895, 1, 116>>, <<902, 902, 1, 38>>, <<904, 906, 1, 37>>,
      <<908, 908, 1, 64>>, <<910, 911, 1, 63>>, <<913, 929, 1, 32>>,
      <<931, 939, 1, 32>>, <<962, 962, 1, 1>>, <<975, 975, 1, 8>>,
      <<976, 976, 1, -30>>, <<977, 977, 1, -25>>, <<981, 981, 1, -15>>,
      <<982, 982, 1, -22>>, <<984, 1006, 2, 1>>, <<1008, 1008, 1, -54>>,
      <<1009, 1009, 1, -48>>, <<1012, 1012, 1, -60>>, <<1013, 1013, 1, -64>>,
      <<1015, 1015, 1, 1>>, <<1017, 1017, 1, -7>>, <<1018, 1018, 1, 1>>,
      <<1021, 1023, 1, -130>>, <<1024, 1039, 1, 80>>, <<1040, 1071, 1, 32>>,
      <<1120, 1152, 2, 1>>, <<1162, 1214, 2, 1>>, <<1216, 1216, 1, 15>>,
      <<1217, 1229, 2, 1>>, <<1232, 1326, 2, 1>>, <<1329, 1366, 1, 48>>,
      <<4256, 4293, 1, 7264>>, <<4295, 4295, 1, 7264>>,
      <<4301, 4301, 1, 7264>>, <<5024, 5103, 1, 38864>>,
      <<5104, 5109, 1, 8>>, <<7296, 7296, 1, -6222>>,
      <<7297, 7297, 1, -6221>>, <<7298, 7298, 1, -6212>>,
      <<7299, 7300, 1, -6210>>, <<7301, 7301, 1, -6211>>,
      <<7302, 7302, 1, -6204>>, <<7303, 7303, 1, -6180>>,
      <<7304, 7304, 1, 35267>>, <<7312, 7354, 1, -3008>>,
      <<7357, 7359, 1, -3008>>, <<7680, 7828, 2, 1>>, <<7835, 7835, 1, -58>>,
      <<7838, 7838, 1, -7615>>, <<7840, 7934, 2, 1>>, <<7944, 7951, 1, -8>>,
      <<7960, 7965, 1, -8>>, <<7976, 7983, 1, -8>>, <<7992, 7999, 1, -8>>,
      <<8008, 8013, 1, -8>>, <<8025, 8031, 2, -8>>, <<8040, 8047, 1, -8>>,
      <<8072, 8079, 1, -8>>, <<8088, 8095, 1, -8>>, <<8104, 8111, 1, -8>>,
      <<8120, 8121, 1, -8>>, <<8122, 8123, 1, -74>>, <<8124, 8124, 1, -9>>,
      <<8126, 8126, 1, -7173>>, <<8136, 8139, 1, -86>>,
      <<8140, 8140, 1, -9>>, <<8147, 8147, 1, -7235>>, <<8152, 8153, 1, -8>>,
      <<8154, 8155, 1, -100>>, <<8163, 8163, 1, -7219>>,
      <<8168, 8169, 1, -8>>, <<8170, 8171, 1, -112>>, <<8172, 8172, 1, -7>>,
      <<8184, 8185, 1, -128>>, <<8186, 8187, 1, -126>>,
      <<8188, 8188, 1, -9>>, <<8486, 8486, 1, -7517>>,
      <<8490, 8490, 1, -8383>>, <<8491, 8491, 1, -8262>>,
      <<8498, 8498, 1, 28>>, <<8544, 8559, 1, 16>>, <<8579, 8579, 1, 1>>,
      <<9398, 9423, 1, 26>>, <<11264, 11311, 1, 48>>, <<11360, 11360, 1, 1>>,
      <<11362, 11362, 1, -10743>>, <<11363, 11363, 1, -3814>>,
      <<11364, 11364, 1, -10727>>, <<11367, 11371, 2, 1>>,
      <<11373, 11373, 1, -10780>>, <<11374, 11374, 1, -10749>>,
      <<11375, 11375, 1, -10783>>, <<11376, 11376, 1, -10782>>,
      <<11378, 11378, 1, 1>>, <<11381, 11381, 1, 1>>,
      <<11390, 11391, 1, -10815>>, <<11392, 11490, 2, 1>>,
      <<11499, 11501, 2, 1>>, <<11506, 11506, 1, 1>>, <<42560, 42604, 2, 1>>,
      <<42624, 42650, 2, 1>>, <<42786, 42798, 2, 1>>, <<42802, 42862, 2, 1>>,
      <<42873, 42875, 2, 1>>, <<42877, 42877, 1, -35332>>,
      <<42878, 42886, 2, 1>>, <<42891, 42891, 1, 1>>,
      <<42893, 42893, 1, -42280>>, <<42896, 42898, 2, 1>>,
      <<42902, 42920, 2, 1>>, <<42922, 42922, 1, -42308>>,
      <<42923, 42923, 1, -42319>>, <<42924, 42924, 1, -42315>>,
      <<42925, 42925, 1, -42305>>, <<42926, 42926, 1, -42308>>,
      <<42928, 42928, 1, -42258>>, <<42929, 42929, 1, -42282>>,
      <<42930, 42930, 1, -42261>>, <<42931, 42931, 1, 928>>,
      <<42932, 42946, 2, 1>>, <<42948, 42948, 1, -48>>,
      <<42949, 42949, 1, -42307>>, <<42950, 42950, 1, -35384>>,
      <<42951, 42953, 2, 1>>, <<42960, 42960, 1, 1>>, <<42966, 42968, 2, 1>>,
      <<42997, 42997, 1, 1>>, <<64262, 64262, 1, -1>>,
      <<65313, 65338, 1, 32>>, <<66560, 66599, 1, 40>>,
      <<66736, 66771, 1, 40>>, <<66928, 66964, 2, 39>>,
      <<66929, 66937, 2, 39>>, <<66941, 66953, 2, 39>>,
      <<66957, 66961, 2, 39>>, <<66965, 66965, 1, 39>>,
      <<68736, 68786, 1, 64>>, <<71840, 71871, 1, 32>>,
      <<93760, 93791, 1, 32>>, <<125184, 125217, 1, 34>>>>

CaseFold ==
    [c \in UNION {{r[1] + k * r[3] : k \in 0..((r[2] - r[1]) \div r[3])} :
                      r \in {CaseRanges[i] : i \in DOMAIN CaseRanges}} |->
        LET r == CHOOSE q \in {CaseRanges[i] : i \in DOMAIN CaseRanges} :
                     /\ q[1] <= c /\ c <= q[2]
                     /\ (c - q[1]) % q[3] = 0
        IN c + r[4]]

fold(c) == IF c \in DOMAIN CaseFold THEN CaseFold[c] ELSE c

\* A string as the code builds it: lit, followed by the characters chars.
PyText(lit, chars) == [lit |-> lit, chars |-> chars]

\* sep.join(items)
RECURSIVE join(_, _)
join(sep, items) ==
    IF items = <<>> THEN <<>>
    ELSE IF Len(items) = 1 THEN items[1]
    ELSE items[1] \o sep \o join(sep, Tail(items))

\* dict.get(key, default)
get(d, key, default) == IF key \in DOMAIN d THEN d[key] ELSE default

SeqMax(S) == CHOOSE m \in S : \A x \in S : x <= m

-----------------------------------------------------------------------------
(* re.findall(pattern, text, re.IGNORECASE) on the regex subset *)

GroupOpens(p) == {i \in 1..Len(p) : p[i] = 40}

\* re.error: a "(" that is never closed
re_error(p) == GroupOpens(p) # {}

re_error_msg(p) ==
    "missing ), unterminated subpattern at position "
        \o ToString(SeqMax(GroupOpens(p)) - 1)

MatchAtom(pc, tc) ==
    IF pc = 46 THEN tc # 10 ELSE fold(pc) = fold(tc)

MatchesAt(p, t, pos) ==
    /\ pos + Len(p) - 1 <= Len(t)
    /\ \A k \in 1..Len(p) : MatchAtom(p[k], t[pos + k - 1])

RECURSIVE Scan(_, _, _)
Scan(p, t, pos) ==
    IF pos > Len(t) + 1 THEN <<>>
    ELSE IF MatchesAt(p, t, pos)
         THEN <<SubSeq(t, pos, pos + Len(p) - 1)>>
                  \o Scan(p, t, pos + (IF Len(p) = 0 THEN 1 ELSE Len(p)))
         ELSE Scan(p, t, pos + 1)

findall(p, t) == Scan(p, t, 1)

-----------------------------------------------------------------------------
(* analyze_email *)

\* line 34 without the emptiness test
InvalidInput_type_only(text) ==
    text.type # "str"

\* line 34: the condition under which ValueError is raised
InvalidInput(text) ==
    text.type # "str" \/ strip(text.chars) = <<>>

\* lines 42-48 with the weight added once per match
PatternStep_per_match(acc, label, pattern, rules, t) ==
    IF re_error(pattern)
    THEN [score |-> acc.score,
          flags |-> Append(acc.flags,
                       PyText("Invalid regex pattern for " \o label \o ": "
                                  \o re_error_msg(pattern), <<>>))]
    ELSE LET matches == findall(pattern, t) IN
         IF matches # <<>>
         THEN [score |-> acc.score + Len(matches) * get(rules, label, 0),
               flags |-> Append(acc.flags,
                            PyText(label \o " found: ",
                                   join(<<44, 32>>, matches)))]
         ELSE acc

\* lines 42-48: one iteration of the loop over suspicious_patterns.items()
PatternStep(acc, label, pattern, rules, t) ==
    IF re_error(pattern)
    THEN [score |-> acc.score,
          flags |-> Append(acc.flags,
                       PyText("Invalid regex pattern for " \o label \o ": "
                                  \o re_error_msg(pattern), <<>>))]
    ELSE LET matches == findall(pattern, t) IN
         IF matches # <<>>
         THEN [score |-> acc.score + get(rules, label, 0),
               flags |-> Append(acc.flags,
                            PyText(label \o " found: ",
                                   join(<<44, 32>>, matches)))]
         ELSE acc

\* lines 41-48 with the try around the whole loop: re.error ends the loop
RECURSIVE PatternLoop_try_outside(_, _, _, _, _)
PatternLoop_try_outside(sp, rules, t, i, acc) ==
    IF i > Len(sp) THEN acc
    ELSE IF re_error(sp[i].pattern)
         THEN PatternStep(acc, sp[i].label, sp[i].pattern, rules, t)
         ELSE PatternLoop_try_outside(sp, rules, t, i + 1,
                  PatternStep(acc, sp[i].label, sp[i].pattern, rules, t))

\* lines 41-48: the loop, from entry i on
RECURSIVE PatternLoop(_, _, _, _, _)
PatternLoop(sp, rules, t, i, acc) ==
    IF i > Len(sp) THEN acc
    ELSE PatternLoop(sp, rules, t, i + 1,
             PatternStep(acc, sp[i].label, sp[i].pattern, rules, t))

\* lines 51-55 with the weight subtracted
OrgStep_subtract(acc, rules, ents) ==
    LET orgs == SelectSeq(ents, LAMBDA l : l = "ORG") IN
    IF orgs = <<>>
    THEN [score |-> acc.score - get(rules, "missing_organization", 0),
          flags |-> Append(acc.flags,
                           PyText("No organization detected", <<>>))]
    ELSE acc

\* lines 51-55 with the flag put first
OrgStep_insert_first(acc, rules, ents) ==
    LET orgs == SelectSeq(ents, LAMBDA l : l = "ORG") IN
    IF orgs = <<>>
    THEN [score |-> acc.score + get(rules, "missing_organization", 0),
          flags |-> <<PyText("No organization detected", <<>>)>> \o acc.flags]
    ELSE acc

\* lines 51-55: the organization check
OrgStep(acc, rules, ents) ==
    LET orgs == SelectSeq(ents, LAMBDA l : l = "ORG") IN
    IF orgs = <<>>
    THEN [score |-> acc.score + get(rules, "missing_organization", 0),
          flags |-> Append(acc.flags,
                           PyText("No organization detected", <<>>))]
    ELSE acc

\* lines 37-57: the body after validation, from the given locals
AnalyzeBody(sp, rules, t, ents, start) ==
    OrgStep(PatternLoop(sp, rules, t, 1, start), rules, ents)

PyTuple(r) == [type |-> "tuple", score |-> r.score, flags |-> r.flags]

\* lines 32-57 with score and flags kept between calls
analyze_email_accumulating(email_text, ents) ==
    /\ printed' = <<>>
    /\ UNCHANGED <<env, ctor, config_vars>>
    /\ IF InvalidInput(email_text)
       THEN /\ call' = [text |-> email_text]
            /\ outcome' = "ValueError"
            /\ ret' = PyNone
            /\ held' = held
       ELSE LET start == IF held.type = "tuple"
                         THEN [score |-> held.score, flags |-> held.flags]
                         ELSE [score |-> 0, flags |-> <<>>]
                r == AnalyzeBody(suspicious_patterns, scoring_rules,
                                 email_text.chars, ents, start) IN
            /\ call' = [text |-> email_text, ents |-> ents]
            /\ outcome' = "returned"
            /\ ret' = PyTuple(r)
            /\ held' = [type |-> "tuple", score |-> r.score, flags |-> r.flags,
                        text |-> email_text, ents |-> ents]

\* lines 32-57
analyze_email(email_text, ents) ==
    /\ printed' = <<>>
    /\ UNCHANGED <<env, ctor, config_vars>>
    /\ IF InvalidInput(email_text)
       THEN /\ call' = [text |-> email_text]
            /\ outcome' = "ValueError"
            /\ ret' = PyNone
            /\ held' = held
       ELSE LET r == AnalyzeBody(suspicious_patterns, scoring_rules,
                                 email_text.chars, ents,
                                 [score |-> 0, flags |-> <<>>]) IN
            /\ call' = [text |-> email_text, ents |-> ents]
            /\ outcome' = "returned"
            /\ ret' = PyTuple(r)
            /\ held' = [type |-> "tuple", score |-> r.score, flags |-> r.flags,
                        text |-> email_text, ents |-> ents]

-----------------------------------------------------------------------------
(* print_results *)

\* lines 67-72 with a strict upper threshold
Verdict_strict(score) ==
    IF score > 7 THEN "Likely phishing attempt."
    ELSE IF 4 <= score /\ score <= 7
         THEN "Suspicious email - exercise caution."
         ELSE "Email appears safe."

\* lines 67-72: the verdict sentence (the printed line also carries a leading
\* emoji, and a long dash where this has "-")
Verdict(score) ==
    IF score >= 7 THEN "Likely phishing attempt."
    ELSE IF 4 <= score /\ score < 7
         THEN "Suspicious email - exercise caution."
         ELSE "Email appears safe."

\* lines 61-72 with "None" appended to an empty list before printing
print_results_appending(score, flags) ==
    LET shown == IF flags # <<>> THEN flags ELSE <<PyText("None", <<>>)>> IN
    [out   |-> <<PyText("=== PHISHING DETECTION RESULTS ===", <<>>),
                 PyText("Email Analysis Score: " \o ToString(score), <<>>),
                 PyText("Flags:", <<>>)>>
               \o [i \in 1..Len(shown) |->
                      PyText("- " \o shown[i].lit, shown[i].chars)]
               \o <<PyText(Verdict(score), <<>>)>>,
     flags |-> shown]

\* lines 61-72: the lines printed, and the list `flags` as the call leaves it
print_results(score, flags) ==
    LET shown == IF flags # <<>> THEN flags ELSE <<PyText("None", <<>>)>> IN
    [out   |-> <<PyText("=== PHISHING DETECTION RESULTS ===", <<>>),
                 PyText("Email Analysis Score: " \o ToString(score), <<>>),
                 PyText("Flags:", <<>>)>>
               \o [i \in 1..Len(shown) |->
                      PyText("- " \o shown[i].lit, shown[i].chars)]
               \o <<PyText(Verdict(score), <<>>)>>,
     flags |-> flags]

\* line 92: main prints what analyze_email returned
Report ==
    /\ held.type = "tuple"
    /\ LET p == print_results(held.score, held.flags) IN
       /\ printed' = p.out
       /\ held' = [held EXCEPT !.flags = p.flags]
    /\ UNCHANGED <<env, ctor, config_vars, call, outcome, ret>>

-----------------------------------------------------------------------------

(* __init__ *)

\* The dict json.load returns: a record with any of the two keys.
EmptyDict == [k \in {} |-> 0]

ConfigDicts ==
    {EmptyDict}
        \cup {[suspicious_patterns |-> sp] : sp \in PatternMaps}
        \cup {[scoring_rules |-> sr] : sr \in RuleMaps}
        \cup {[suspicious_patterns |-> sp, scoring_rules |-> sr] :
                  sp \in PatternMaps, sr \in RuleMaps}

Files ==
    {[kind |-> "missing"], [kind |-> "invalid_json"]}
        \cup {[kind |-> "json", value |-> d] : d \in ConfigDicts}

Envs == [file : Files, nlp_ok : BOOLEAN]

\* lines 7-72: the attributes of class PhishingDetector.  The def at line 18
\* is indented under __init__, so it binds a local name of __init__, not a
\* method.
ClassAttributes == {"__init__", "analyze_email", "print_results"}

\* line 11: spacy.load
spacy_load(nlp_ok) ==
    IF nlp_ok THEN [raised |-> "none"] ELSE [raised |-> "OSError"]

\* lines 18-29: the body of the nested function
load_config(file) ==
    IF file.kind = "missing"
    THEN [raised |-> "FileNotFoundError"]
    ELSE IF file.kind = "invalid_json"
    THEN [raised |-> "ValueError"]
    ELSE IF DOMAIN file.value = {}
    THEN [raised |-> "ValueError"]
    ELSE [raised |-> "none", value |-> file.value]

\* lines 10-16: what the try block raises, or the attributes it sets
init_try(e) ==
    IF spacy_load(e.nlp_ok).raised # "none"
    THEN [raised |-> spacy_load(e.nlp_ok).raised]
    ELSE IF "_load_config" \notin ClassAttributes
    THEN [raised |-> "AttributeError"]
    ELSE LET c == load_config(e.file) IN
         IF c.raised # "none"
         THEN [raised |-> c.raised]
         ELSE [raised |-> "none",
               suspicious_patterns |->
                   get(c.value, "suspicious_patterns", EmptyDict),
               scoring_rules |-> get(c.value, "scoring_rules", EmptyDict)]

Unset == [type |-> "unset"]

\* lines 8-16: PhishingDetector(config_path)
Construct ==
    /\ ctor.status = "new"
    /\ LET r == init_try(env) IN
       IF r.raised # "none"
       THEN /\ ctor' = [status |-> "raised", exc |-> "RuntimeError",
                        cause |-> r.raised]
            /\ UNCHANGED config_vars
       ELSE /\ ctor' = [status |-> "returned"]
            /\ suspicious_patterns' = r.suspicious_patterns
            /\ scoring_rules' = r.scoring_rules
    /\ UNCHANGED <<env, call, outcome, ret, held, printed>>

-----------------------------------------------------------------------------
(* Specifications *)

NoEnv == [file |-> [kind |-> "unused"], nlp_ok |-> TRUE]

\* A detector whose attributes hold a config; no call made yet.
Init ==
    /\ env = NoEnv
    /\ ctor = [status |-> "attributes set"]
    /\ suspicious_patterns \in PatternMaps
    /\ scoring_rules \in RuleMaps
    /\ call = PyNone
    /\ outcome = "none"
    /\ ret = PyNone
    /\ held = PyNone
    /\ printed = <<>>

Analyze == \E t \in Inputs, e \in NerAnswers : analyze_email(t, e)

Next == Analyze \/ Report

Spec == Init /\ [][Next]_vars

\* An environment, and a constructor call about to run in it.
InitCtor ==
    /\ env \in Envs
    /\ ctor = [status |-> "new"]
    /\ suspicious_patterns = Unset
    /\ scoring_rules = Unset
    /\ call = PyNone
    /\ outcome = "none"
    /\ ret = PyNone
    /\ held = PyNone
    /\ printed = <<>>

NextCtor == Construct

SpecInit == InitCtor /\ [][NextCtor]_vars

-----------------------------------------------------------------------------
(* Vocabulary of the properties, stated from the text and the config alone *)

Zero == [score |-> 0, flags |-> <<>>]

\* the whitespace characters, by code point: tab to carriage return, the
\* four separators, space, next line, no-break space, ogham space mark, en
\* quad to hair space, line and paragraph separator, narrow no-break space,
\* medium mathematical space, ideographic space
Whitespace ==
    {9, 10, 11, 12, 13, 28, 29, 30, 31, 32, 133, 160, 5760,
     8192, 8193, 8194, 8195, 8196, 8197, 8198, 8199, 8200, 8201, 8202,
     8232, 8233, 8239, 8287, 12288}

SameLetter(a, b) == a = b \/ fold(a) = fold(b)

\* the pattern has an unclosed group
Malformed(p) == \E i \in DOMAIN p : p[i] = 40

\* the pattern matches the text, ignoring case, starting after offset
OccursAt(p, t, offset) ==
    /\ offset + Len(p) <= Len(t)
    /\ \A k \in 1..Len(p) :
          IF p[k] = 46 THEN t[offset + k] # 10
          ELSE SameLetter(p[k], t[offset + k])

Occurs(p, t) ==
    ~Malformed(p) /\ \E offset \in 0..Len(t) : OccursAt(p, t, offset)

NoOrg(ents) == \A i \in DOMAIN ents : ents[i] # "ORG"

Weight(key) ==
    IF key \in DOMAIN scoring_rules THEN scoring_rules[key] ELSE 0

RECURSIVE SumWeights(_)
SumWeights(S) ==
    IF S = {} THEN 0
    ELSE LET l == CHOOSE x \in S : TRUE IN Weight(l) + SumWeights(S \ {l})

MatchingLabels(t) ==
    {suspicious_patterns[i].label : i \in
        {j \in DOMAIN suspicious_patterns :
            Occurs(suspicious_patterns[j].pattern, t)}}

MalformedLabels ==
    {suspicious_patterns[i].label : i \in
        {j \in DOMAIN suspicious_patterns :
            Malformed(suspicious_patterns[j].pattern)}}

Returned == outcome = "returned"

Text == call.text.chars

InvalidFlag(e) ==
    PyText("Invalid regex pattern for " \o e.label \o ": "
               \o re_error_msg(e.pattern), <<>>)

FoundFlag(e, t) ==
    PyText(e.label \o " found: ", join(<<44, 32>>, findall(e.pattern, t)))

OrgFlag == PyText("No organization detected", <<>>)

Count(seq, x) == Cardinality({i \in DOMAIN seq : seq[i] = x})

-----------------------------------------------------------------------------
(* Claims *)

\* C1: analyze_email raises ValueError, and returns no (score, flags), for
\* every argument that is the empty string or is not a string, whatever the
\* config and the NER answer.
Thm_C1 ==
    (outcome # "none"
        /\ (call.text.type # "str" \/ call.text.chars = <<>>))
    => (outcome = "ValueError" /\ ret = PyNone)

Wit_C1 ==
    /\ outcome = "ValueError"
    /\ call.text = PyStr(<<>>)
    /\ suspicious_patterns # <<>>
    /\ ret = PyNone

\* C2: print_results prints exactly one verdict: likely phishing iff
\* score >= 7, suspicious iff 4 <= score < 7, safe otherwise.
Verdicts ==
    {PyText("Likely phishing attempt.", <<>>),
     PyText("Suspicious email - exercise caution.", <<>>),
     PyText("Email appears safe.", <<>>)}

Thm_C2 ==
    printed # <<>> =>
        LET v == printed[Len(printed)] IN
        /\ Cardinality({i \in DOMAIN printed : printed[i] \in Verdicts}) = 1
        /\ v \in Verdicts
        /\ (v.lit = "Likely phishing attempt." <=> held.score >= 7)
        /\ (v.lit = "Suspicious email - exercise caution."
                <=> (4 <= held.score /\ held.score < 7))
        /\ (v.lit = "Email appears safe." <=> held.score <= 3)

Wit_C2 ==
    /\ printed # <<>>
    /\ held.score = 7
    /\ printed[Len(printed)] = PyText("Likely phishing attempt.", <<>>)

\* C3: __init__ fails with a configuration error when the config file is
\* missing, is not JSON or holds an empty config, and with an initialization
\* error when the spaCy model cannot be loaded; the initialization error is
\* kept for the spaCy cause.
ConfigurationErrors == {"FileNotFoundError", "ValueError"}

BadConfigFile(f) ==
    f.kind \in {"missing", "invalid_json"}
        \/ (f.kind = "json" /\ DOMAIN f.value = {})

\* a configuration error, also when wrapped by the except clause of line 15
IsConfigurationError(c) ==
    c.status = "raised"
        /\ (c.exc \in ConfigurationErrors \/ c.cause \in ConfigurationErrors)

IsInitializationError(c) ==
    c.status = "raised" /\ c.exc = "RuntimeError"
        /\ c.cause \notin ConfigurationErrors

CE_C3 ==
    ctor.status \in {"raised", "returned"} =>
        /\ (env.nlp_ok /\ BadConfigFile(env.file))
               => IsConfigurationError(ctor)
        /\ ~env.nlp_ok => IsInitializationError(ctor)
        /\ IsInitializationError(ctor) => ~env.nlp_ok

\* C4: with a config file holding non-empty JSON and a loadable spaCy
\* model, __init__ returns, and the detector's suspicious_patterns and
\* scoring_rules are the config's entries (empty when the key is absent).
CE_C4 ==
    (ctor.status \in {"raised", "returned"}
        /\ env.nlp_ok
        /\ env.file.kind = "json"
        /\ DOMAIN env.file.value # {})
    => /\ ctor.status = "returned"
       /\ suspicious_patterns
              = get(env.file.value, "suspicious_patterns", EmptyDict)
       /\ scoring_rules = get(env.file.value, "scoring_rules", EmptyDict)

\* C5: the returned score is the sum of the weights (0 when unset) of the
\* labels whose pattern matches the text ignoring case, each counted once,
\* plus the missing_organization weight (0 when unset) iff the NER answer
\* has no ORG entity.
Thm_C5 ==
    Returned =>
        ret.score = SumWeights(MatchingLabels(Text))
                        + (IF NoOrg(call.ents)
                           THEN Weight("missing_organization") ELSE 0)

Wit_C5 ==
    /\ Returned
    /\ NoOrg(call.ents)
    /\ "missing_organization" \in DOMAIN scoring_rules
    /\ \E i \in DOMAIN suspicious_patterns :
          /\ suspicious_patterns[i].label \in DOMAIN scoring_rules
          /\ Weight(suspicious_patterns[i].label) # 0
          /\ Cardinality({o \in 0..Len(Text) :
                 /\ ~Malformed(suspicious_patterns[i].pattern)
                 /\ OccursAt(suspicious_patterns[i].pattern, Text, o)}) >= 2

\* C6: a malformed pattern adds nothing to the score and exactly one flag
\* naming its label; the other patterns and the ORG check run as if the
\* malformed pattern were not in the config, and the call returns.
WellFormedPart ==
    SelectSeq(suspicious_patterns, LAMBDA e : ~Malformed(e.pattern))

InvalidFlags ==
    {InvalidFlag(suspicious_patterns[i]) : i \in
        {j \in DOMAIN suspicious_patterns :
            Malformed(suspicious_patterns[j].pattern)}}

Thm_C6 ==
    (outcome # "none" /\ ~InvalidInput(call.text)) =>
        /\ Returned
        /\ LET without == AnalyzeBody(WellFormedPart, scoring_rules,
                                      Text, call.ents, Zero) IN
           /\ ret.score = without.score
           /\ SelectSeq(ret.flags, LAMBDA f : f \notin InvalidFlags)
                  = without.flags
        /\ \A i \in DOMAIN suspicious_patterns :
              Malformed(suspicious_patterns[i].pattern)
                  => Count(ret.flags, InvalidFlag(suspicious_patterns[i])) = 1

Wit_C6 ==
    /\ Returned
    /\ Len(suspicious_patterns) = 2
    /\ Malformed(suspicious_patterns[1].pattern)
    /\ suspicious_patterns[1].label \in DOMAIN scoring_rules
    /\ Occurs(suspicious_patterns[2].pattern, Text)
    /\ Len(ret.flags) >= 2

\* C7 as stated: every string of length >= 1, whitespace-only ones
\* included, gets a (score, flags) result, with a non-negative score when
\* no configured weight is negative.
AllWeightsNonNegative ==
    \A k \in DOMAIN scoring_rules : scoring_rules[k] >= 0

CE_C7 ==
    (outcome # "none" /\ call.text.type = "str" /\ Len(call.text.chars) >= 1)
    => /\ Returned
       /\ ret.type = "tuple"
       /\ AllWeightsNonNegative => ret.score >= 0

\* C7 amended: every string with at least one non-whitespace character
\* gets a (score, flags) result, with a non-negative score when no
\* configured weight is negative.
Thm_C7 ==
    (outcome # "none" /\ call.text.type = "str"
        /\ \E i \in DOMAIN call.text.chars :
               call.text.chars[i] \notin Whitespace)
    => /\ Returned
       /\ ret.type = "tuple"
       /\ AllWeightsNonNegative => ret.score >= 0

Wit_C7 ==
    /\ Returned
    /\ \E i \in DOMAIN Text : Text[i] \in Whitespace
    /\ AllWeightsNonNegative
    /\ DOMAIN scoring_rules # {}
    /\ ret.score > 0

\* C8: the flags are, in the iteration order of suspicious_patterns, one
\* flag per label whose pattern matched and one per label whose pattern is
\* malformed, then "No organization detected" iff no ORG entity was found;
\* a label that neither matches nor is malformed adds no flag.
Triggered(t) ==
    SelectSeq(suspicious_patterns,
              LAMBDA e : Malformed(e.pattern) \/ Occurs(e.pattern, t))

ExpectedFlags(t, ents) ==
    [i \in 1..Len(Triggered(t)) |->
        IF Malformed(Triggered(t)[i].pattern)
        THEN InvalidFlag(Triggered(t)[i])
        ELSE FoundFlag(Triggered(t)[i], t)]
      \o (IF NoOrg(ents) THEN <<OrgFlag>> ELSE <<>>)

Thm_C8 ==
    Returned =>
        /\ ret.flags = ExpectedFlags(Text, call.ents)
        /\ Len(ret.flags)
               = Cardinality(MatchingLabels(Text))
                   + Cardinality(MalformedLabels)
                   + (IF NoOrg(call.ents) THEN 1 ELSE 0)
        /\ Count(ret.flags, OrgFlag) = (IF NoOrg(call.ents) THEN 1 ELSE 0)

Wit_C8 ==
    /\ Returned
    /\ Len(suspicious_patterns) = 2
    /\ Occurs(suspicious_patterns[1].pattern, Text)
    /\ Malformed(suspicious_patterns[2].pattern)
    /\ NoOrg(call.ents)
    /\ Len(ret.flags) = 3
    /\ ret.flags[3] = OrgFlag

\* C9: no call of analyze_email or print_results changes
\* suspicious_patterns or scoring_rules, and print_results leaves the score
\* and the flags list it was given as they were, printing "None" for an
\* empty list without adding it.
Thm_C9 ==
    [][/\ suspicious_patterns' = suspicious_patterns
       /\ scoring_rules' = scoring_rules
       /\ printed' # <<>> =>
             /\ held' = held
             /\ (held.flags = <<>> => printed'[4] = PyText("- None", <<>>))]_vars

Wit_C9 ==
    /\ printed # <<>>
    /\ held.flags = <<>>
    /\ printed[4] = PyText("- None", <<>>)
    /\ Len(printed) = 5

\* C10: what analyze_email returns depends only on the text, the config and
\* the NER answer: a call with the text and NER answer of the last call that
\* returned gives the same (score, flags), also after print_results calls
\* and after calls that raised, and a call in which nothing triggers
\* returns (0, []).
Thm_C10 ==
    [][outcome' = "returned" =>
          /\ (held.type = "tuple" /\ call'.text = held.text
                 /\ call'.ents = held.ents)
             => (ret'.score = held.score /\ ret'.flags = held.flags)
          /\ (Triggered(call'.text.chars) = <<>> /\ ~NoOrg(call'.ents))
             => (ret'.score = 0 /\ ret'.flags = <<>>)]_vars

Wit_C10 ==
    /\ outcome = "ValueError"
    /\ held.type = "tuple"
    /\ held.score # 0
    /\ held.flags # <<>>

====
